---- MODULE Spec2Model ----
EXTENDS Integers, Sequences, FiniteSets, TLC

(***************************************************************************)
(* Model of cmd/xc/interactive.go: the bubbletea selection model (model,   *)
(* backed by a bubbles list.Model with filtering enabled), the             *)
(* interactivePicker controller, and the shell-history synchronizer        *)
(* (addToShellHistory and helpers).                                        *)
(*                                                                         *)
(* Strings the code inspects character by character (task names, SHELL,    *)
(* history lines) are sequences of one-character strings.                  *)
(***************************************************************************)

\* ---- bounds ----
MaxFilterLen == 2
MaxPending == 1
MaxSyncs == 2
\* page and cursor can go negative (Go truncating division); explored down to -MaxNeg
MaxNeg == 1

\* ---- program constants ----
ListItemWidth == 20
ListItemHeight == 6

\* ---- inputs ----
NoTask == <<>>
TaskList == << <<"a","b">>, <<"a","b","a">> >>
TaskLists == { <<>>, TaskList }
Widths == {20, 80}
Times == {1700000000, 1700000001}
Shells == { <<"/","b","i","n","/","b","a","s","h">>,
            <<"/","u","s","r","/","b","i","n","/","z","s","h">>,
            <<"/","u","s","r","/","b","i","n","/","f","i","s","h">>,
            <<"/","b","i","n","/","Z","S","H">>,
            <<>> }
InitHist == <<"l","s","\n">>
CancelKeys == {"ctrl+c", "q", "esc"}
\* keys reaching list.Update: filter, printable characters, help, navigation,
\* paging, accept while filtering, deletion
ListKeys == {"/", "?", "a", "up", "down", "pgup", "pgdown", "home", "end", "tab", "backspace"}
\* keys the focused FilterInput inserts as text; "/" and "?" are both
\* absent from the task names, so only "?" is typed while filtering
TypedChars == {"?", "a"}

Max(x, y) == IF x > y THEN x ELSE y
Range(s) == {s[i] : i \in DOMAIN s}
Remove(s, i) == SubSeq(s, 1, i - 1) \o SubSeq(s, i + 1, Len(s))
Front(s) == SubSeq(s, 1, Len(s) - 1)

\* strings.Contains on byte strings
Contains(s, sub) ==
  \E i \in 0..(Len(s) - Len(sub)) : SubSeq(s, i + 1, i + Len(sub)) = sub

\* ---- sahilm/fuzzy, the default list.FilterFunc (list.DefaultFilter) ----
NUL == ""
Lower(c) == CASE c = "A" -> "a" [] c = "B" -> "b" [] c = "Z" -> "z"
                 [] c = "S" -> "s" [] c = "H" -> "h" [] OTHER -> c
IsUpperRune(c) == c \in {"A", "B", "Z", "S", "H"}
IsLowerRune(c) == c \in {"a", "b", "z", "s", "h", "c", "x", "l", "i", "n", "u", "r", "f"}
IsSeparator(c) == c \in {"/", "-", "_", " ", ".", "\\"}
EqualFold(x, y) == Lower(x) = Lower(y)

\* One iteration j (1-based position) of the scan of FindFrom over s.
\* st: pi (pattern index, 1-based), matched (0-based matched indexes),
\*     best, mi (0-based matchedIndex or -1), curAdj, total.
RECURSIVE FzLoop(_, _, _, _)
FzLoop(pat, s, j, st) ==
  IF j > Len(s) \/ st.pi > Len(pat) THEN st
  ELSE
    LET j0 == j - 1
        cand == s[j]
        last == IF j = 1 THEN NUL ELSE s[j - 1]
        isMatch == EqualFold(cand, pat[st.pi])
        adj == IF isMatch /\ st.matched /= <<>>
                            /\ st.matched[Len(st.matched)] = j0 - 1
               THEN st.curAdj * 2 + 5 ELSE 0
        sc == (IF j0 = 0 THEN 10 ELSE 0)
              + (IF IsLowerRune(last) /\ IsUpperRune(cand) THEN 20 ELSE 0)
              + (IF j0 /= 0 /\ IsSeparator(last) THEN 20 ELSE 0)
              + adj
        curAdj1 == IF isMatch /\ st.matched /= <<>> THEN st.curAdj + adj ELSE st.curAdj
        better == isMatch /\ sc > st.best
        best1 == IF better THEN sc ELSE st.best
        mi1 == IF better THEN j0 ELSE st.mi
        nextp == IF st.pi < Len(pat) THEN pat[st.pi + 1] ELSE NUL
        nextc == IF j < Len(s) THEN s[j + 1] ELSE NUL
        commit == (EqualFold(nextp, nextc) \/ nextc = NUL) /\ mi1 > -1
        lead == IF st.matched = <<>> THEN Max(mi1 * (-5), -15) ELSE 0
        st1 == IF commit
               THEN [pi |-> st.pi + 1, matched |-> Append(st.matched, mi1),
                     best |-> -1, mi |-> -1, curAdj |-> curAdj1,
                     total |-> st.total + best1 + lead]
               ELSE [pi |-> st.pi, matched |-> st.matched, best |-> best1,
                     mi |-> mi1, curAdj |-> curAdj1, total |-> st.total]
    IN FzLoop(pat, s, j + 1, st1)

FzResult(pat, s) ==
  FzLoop(pat, s, 1, [pi |-> 1, matched |-> <<>>, best |-> -1, mi |-> -1,
                     curAdj |-> 0, total |-> 0])

FuzzyMatches(pat, s) == Len(FzResult(pat, s).matched) = Len(pat)
FuzzyScore(pat, s) == FzResult(pat, s).total + Len(FzResult(pat, s).matched) - Len(s)

\* list.DefaultFilter: indexes of the matching targets, by descending score
\* (ties keep target order).
DefaultFilter(term, targets) ==
  LET M == {i \in DOMAIN targets : FuzzyMatches(term, targets[i])}
      sc(i) == FuzzyScore(term, targets[i])
      rank(i) == Cardinality({k \in M : sc(k) > sc(i) \/ (sc(k) = sc(i) /\ k < i)}) + 1
  IN [p \in 1..Cardinality(M) |-> CHOOSE i \in M : rank(i) = p]

\* taskItem.FilterValue
FilterValue(t) == t

\* list.filterItems: the FilterMatchesMsg computed from a snapshot
FilterItems(ts, text) ==
  IF text = <<>> THEN ts
  ELSE LET r == DefaultFilter(text, [i \in DOMAIN ts |-> FilterValue(ts[i])])
       IN [p \in DOMAIN r |-> ts[r[p]]]

VARIABLES tasks, filterState, filterText, textPos, filteredItems, cursor,
          page, perPage, totalPages, showAll, pagingKeys, pending, blinkPending,
          width, quitting, choice, quitPending, lastMsg,
          pc, ret, runCalls,
          shell, bashHist, zshHist, refreshCalls, syncLog

\* The bubbles list.Model state the picker depends on:
\*   filterState, filterText / textPos (FilterInput value and its cursor),
\*   filteredItems, cursor, Paginator.Page / PerPage / TotalPages,
\*   Help.ShowAll, pagingKeys (KeyMap.NextPage/PrevPage enabled),
\*   pending (FilterMatchesMsg results of filterItems commands in flight),
\*   blinkPending (a FilterInput cursor-blink message in flight), width.
lsVars == <<filterState, filterText, textPos, filteredItems, cursor, page, perPage,
            totalPages, showAll, pagingKeys, pending, blinkPending>>
listVars == <<tasks, lsVars, width>>
modelVars == <<quitting, choice, quitPending, lastMsg>>
ctlVars == <<pc, ret, runCalls>>
histVars == <<shell, bashHist, zshHist, refreshCalls, syncLog>>
vars == <<listVars, modelVars, ctlVars, histVars>>

\* The list state as a record, and its assignment
LS == [fs |-> filterState, text |-> filterText, pos |-> textPos, fi |-> filteredItems,
       cur |-> cursor, pg |-> page, pp |-> perPage, tp |-> totalPages, sa |-> showAll,
       pk |-> pagingKeys, pend |-> pending, blink |-> blinkPending]
SetList(l) ==
  /\ l.pg >= -MaxNeg /\ l.cur >= -MaxNeg
  /\ filterState' = l.fs /\ filterText' = l.text /\ textPos' = l.pos
  /\ filteredItems' = l.fi /\ cursor' = l.cur /\ page' = l.pg /\ perPage' = l.pp
  /\ totalPages' = l.tp /\ showAll' = l.sa /\ pagingKeys' = l.pk
  /\ pending' = l.pend /\ blinkPending' = l.blink

Min(x, y) == IF x < y THEN x ELSE y

\* The list state equals the record l
ListIs(l) ==
  /\ filterState = l.fs /\ filterText = l.text /\ textPos = l.pos
  /\ filteredItems = l.fi /\ cursor = l.cur /\ page = l.pg /\ perPage = l.pp
  /\ totalPages = l.tp /\ showAll = l.sa /\ pagingKeys = l.pk
  /\ pending = l.pend /\ blinkPending = l.blink

\* list.Model.VisibleItems
Vis(l) == IF l.fs /= "Unfiltered" THEN l.fi ELSE tasks

\* list.Model.Index: Paginator.Page*Paginator.PerPage + cursor
Index(l) == l.pg * l.pp + l.cur

\* Help view height: HelpStyle pads one line above and below; short help is
\* one line; full help is as tall as its tallest column of enabled bindings
\* (widths 20 and 80 fit the first column, so no column is dropped).
FullHelpRows(l) ==
  IF l.fs = "Filtering"
  THEN (IF l.text /= <<>> THEN 1 ELSE 0) + 1        \* accept, cancel
  ELSE LET hasItems == Len(tasks) /= 0
       IN Max((IF hasItems THEN 4 ELSE 0) + (IF l.pk THEN 2 ELSE 0),   \* up,down,home,end,pages
              Max((IF hasItems THEN 1 ELSE 0) + (IF l.fs = "FilterApplied" THEN 1 ELSE 0),
                  1))                                                 \* close help
HelpHeight(l) == IF l.sa THEN 2 + FullHelpRows(l) ELSE 3

\* list.Model.paginationView height, measured with the TotalPages the list
\* holds when updatePagination runs: "" (1 line) below two pages, otherwise
\* the dots with the MarginTop(1) added because the delegate's Spacing is 0
PaginationHeight(l) == IF l.tp < 2 THEN 1 ELSE 2

\* updatePagination's PerPage: list height minus title (2 lines), pagination
\* and help, one line per item
ListHeight == ListItemHeight + Len(tasks)
PerPageFor(l) == Max(1, ListHeight - 2 - PaginationHeight(l) - HelpHeight(l))

\* Go's truncating integer division and remainder
GoDiv(a, b) == IF a >= 0 THEN a \div b ELSE -((-a) \div b)
GoMod(a, b) == a - b * GoDiv(a, b)

\* list.Model.updatePagination
UpdatePagination(l) ==
  LET idx == Index(l)
      npp == PerPageFor(l)
      n == Len(Vis(l))
      ntp == IF n < 1 THEN 1 ELSE (n + npp - 1) \div npp
      np0 == GoDiv(idx, npp)
  IN [l EXCEPT !.pp = npp, !.tp = ntp, !.cur = GoMod(idx, npp),
               !.pg = IF np0 >= ntp - 1 THEN Max(0, ntp - 1) ELSE np0]

\* list.Model.updateKeybindings: NextPage/PrevPage enabled iff TotalPages > 1
UpdateKeybindings(l) == [l EXCEPT !.pk = IF l.fs = "Filtering" THEN FALSE ELSE l.tp > 1]

\* list.Model.resetFiltering
ResetFiltering(l) ==
  IF l.fs = "Unfiltered" THEN l
  ELSE UpdateKeybindings(UpdatePagination(
         [l EXCEPT !.fs = "Unfiltered", !.text = <<>>, !.pos = 0, !.fi = <<>>]))

\* paginator.Model.ItemsOnPage
ItemsOnPage(total, pg, pp) == IF total < 1 THEN 0 ELSE Min(pg * pp + pp, total) - pg * pp

\* list.Model.SelectedItem
SelectedItem ==
  LET i == Index(LS)
      items == Vis(LS)
  IN IF i < 0 \/ Len(items) = 0 \/ Len(items) <= i THEN NoTask ELSE items[i + 1]

VisibleItems == Vis(LS)

ZshShell == <<"/","u","s","r","/","b","i","n","/","z","s","h">>

\* The list after list.New(items, itemDelegate{}, listItemWidth,
\* listItemHeight+len(tasks)) and the option setters
InitList ==
  UpdatePagination([fs |-> "Unfiltered", text |-> <<>>, pos |-> 0, fi |-> <<>>,
                    cur |-> 0, pg |-> 0, pp |-> 1, tp |-> 1, sa |-> FALSE,
                    pk |-> FALSE, pend |-> <<>>, blink |-> FALSE])

\* lastMsg: kind of the last message model.Update processed
\* ("enter", "cancel" for ctrl+c/q/esc, "other").
Init ==
  /\ tasks \in TaskLists
  /\ ListIs(InitList)
  /\ width = ListItemWidth
  /\ quitting = FALSE
  /\ choice = NoTask
  /\ quitPending = FALSE
  /\ lastMsg = "none"
  /\ pc = "loop"
  /\ ret = "none"
  /\ runCalls = <<>>
  /\ shell = ZshShell
  /\ bashHist = InitHist
  /\ zshHist = InitHist
  /\ refreshCalls = 0
  /\ syncLog = <<>>

\* model.Update, tea.WindowSizeMsg: m.list.SetWidth(msg.Width)
\* (setSize then updatePagination)
Resize(w) ==
  /\ pc = "loop"
  /\ width' = w
  /\ SetList(UpdatePagination(LS))
  /\ lastMsg' = "other"
  /\ UNCHANGED <<tasks, quitting, choice, quitPending, ctlVars, histVars>>

\* model.Update, "ctrl+c", "q", "esc"
CancelKey(k) ==
  /\ pc = "loop"
  /\ quitting' = TRUE
  /\ quitPending' = TRUE
  /\ lastMsg' = "cancel"
  /\ UNCHANGED <<listVars, choice, ctlVars, histVars>>

\* model.Update on "enter", mutated: quitting is set only with a selection
Enter_Mut ==
  /\ pc = "loop"
  /\ choice' = IF SelectedItem /= NoTask THEN SelectedItem ELSE choice
  /\ quitting' = (quitting \/ SelectedItem /= NoTask)
  /\ quitPending' = (quitPending \/ SelectedItem /= NoTask)
  /\ lastMsg' = "enter"
  /\ UNCHANGED <<listVars, ctlVars, histVars>>

\* model.Update, "enter"
Enter ==
  /\ pc = "loop"
  /\ choice' = IF SelectedItem /= NoTask THEN SelectedItem ELSE choice
  /\ quitting' = TRUE
  /\ quitPending' = TRUE
  /\ lastMsg' = "enter"
  /\ UNCHANGED <<listVars, ctlVars, histVars>>

\* list.Model.CursorUp
CursorUp(l) ==
  LET c == l.cur - 1
  IN IF c < 0 /\ l.pg = 0 THEN [l EXCEPT !.cur = 0]
     ELSE IF c >= 0 THEN [l EXCEPT !.cur = c]
     ELSE LET p2 == IF l.pg > 0 THEN l.pg - 1 ELSE l.pg
          IN [l EXCEPT !.pg = p2, !.cur = ItemsOnPage(Len(Vis(l)), p2, l.pp) - 1]

\* list.Model.CursorDown
CursorDown(l) ==
  LET iop == ItemsOnPage(Len(Vis(l)), l.pg, l.pp)
      c == l.cur + 1
  IN IF c < iop THEN [l EXCEPT !.cur = c]
     ELSE IF l.pg /= l.tp - 1 THEN [l EXCEPT !.pg = l.pg + 1, !.cur = 0]
     ELSE IF c > iop THEN [l EXCEPT !.cur = 0]
     ELSE [l EXCEPT !.cur = iop - 1]

\* handleBrowsing: "Keep the index in bounds when paginating"
ClampCursor(l) ==
  LET iop == ItemsOnPage(Len(Vis(l)), l.pg, l.pp)
  IN IF l.cur > iop - 1 THEN [l EXCEPT !.cur = Max(0, iop - 1)] ELSE l

\* list.Model.handleBrowsing for a key the model does not intercept
HandleBrowsing(l, k) ==
  LET hasItems == Len(tasks) /= 0
      numItems == Len(Vis(l))
  IN
  IF k = "/" /\ hasItems
  THEN \* Filter: starts filtering and returns textinput.Blink
       [l EXCEPT !.fi = IF l.text = <<>> THEN tasks ELSE l.fi, !.pg = 0, !.cur = 0,
                 !.fs = "Filtering", !.pos = Len(l.text), !.pk = FALSE, !.blink = TRUE]
  ELSE ClampCursor(
         CASE k = "up" /\ hasItems -> CursorUp(l)
           [] k = "down" /\ hasItems -> CursorDown(l)
           [] k = "pgup" /\ l.pk -> [l EXCEPT !.pg = IF l.pg > 0 THEN l.pg - 1 ELSE l.pg]
           [] k = "pgdown" /\ l.pk -> [l EXCEPT !.pg = IF l.pg /= l.tp - 1 THEN l.pg + 1 ELSE l.pg]
           [] k = "home" /\ hasItems -> [l EXCEPT !.pg = 0, !.cur = 0]
           [] k = "end" /\ hasItems ->
                [l EXCEPT !.pg = l.tp - 1, !.cur = ItemsOnPage(numItems, l.tp - 1, l.pp) - 1]
           [] k = "?" /\ hasItems -> UpdatePagination([l EXCEPT !.sa = ~l.sa])
           [] OTHER -> l)

\* FilterInput edits: insert at the text cursor, delete before it
InsertAt(s, i, c) == SubSeq(s, 1, i) \o <<c>> \o SubSeq(s, i + 1, Len(s))
DeleteBefore(s, i) == SubSeq(s, 1, i - 1) \o SubSeq(s, i + 1, Len(s))

\* list.Model.handleFiltering for a key the model does not intercept
HandleFiltering(l, k) ==
  LET edited ==
        CASE k \in TypedChars ->
               LET t == InsertAt(l.text, l.pos, k)
               IN [l EXCEPT !.text = t, !.pos = l.pos + 1,
                            !.pend = Append(l.pend, FilterItems(tasks, t))]
          [] k = "backspace" /\ l.pos > 0 ->
               LET t == DeleteBefore(l.text, l.pos)
               IN [l EXCEPT !.text = t, !.pos = l.pos - 1,
                            !.pend = Append(l.pend, FilterItems(tasks, t))]
          [] k = "home" -> [l EXCEPT !.pos = 0]
          [] k = "end" -> [l EXCEPT !.pos = Len(l.text)]
          [] k \in {"up", "down", "tab"} /\ l.text /= <<>> /\ Len(tasks) /= 0 ->
               IF Len(l.fi) = 0 THEN ResetFiltering(l)
               ELSE UpdateKeybindings([l EXCEPT !.fs = "FilterApplied"])
          [] OTHER -> l
  IN UpdatePagination(edited)

\* Bounds on the filter text and on filter commands in flight
FilterKeyBounded(k) ==
  filterState = "Filtering" =>
    /\ k /= "/"
    /\ k \in TypedChars => Len(filterText) < MaxFilterLen
    /\ k \in TypedChars \cup {"backspace"} => Len(pending) < MaxPending

\* model.Update falling through to m.list.Update for a key
ListKey(k) ==
  /\ pc = "loop"
  /\ FilterKeyBounded(k)
  /\ SetList(IF filterState = "Filtering" THEN HandleFiltering(LS, k)
             ELSE HandleBrowsing(LS, k))
  /\ lastMsg' = "other"
  /\ UNCHANGED <<tasks, width, quitting, choice, quitPending, ctlVars, histVars>>

\* list.Model.Update, FilterMatchesMsg: a filterItems command's result arrives
DeliverFilterMatches(i) ==
  /\ pc = "loop"
  /\ SetList([LS EXCEPT !.fi = pending[i], !.pend = Remove(pending, i)])
  /\ lastMsg' = "other"
  /\ UNCHANGED <<tasks, width, quitting, choice, quitPending, ctlVars, histVars>>

\* model.Update falling through to m.list.Update for a FilterInput blink
\* message: while filtering, the focused input schedules the next blink and
\* handleFiltering updates the pagination; otherwise handleBrowsing clamps.
Blink ==
  /\ pc = "loop"
  /\ blinkPending
  /\ SetList(IF filterState = "Filtering"
             THEN UpdatePagination(LS)
             ELSE ClampCursor([LS EXCEPT !.blink = FALSE]))
  /\ lastMsg' = "other"
  /\ UNCHANGED <<tasks, width, quitting, choice, quitPending, ctlVars, histVars>>

\* tea.Program event loop receives QuitMsg; interactivePicker reads choice
ProcessQuit ==
  /\ pc = "loop"
  /\ quitPending
  /\ pc' = IF choice = NoTask THEN "done" ELSE "newRunner"
  /\ ret' = IF choice = NoTask THEN "nil" ELSE ret
  /\ UNCHANGED <<listVars, modelVars, runCalls, histVars>>

\* tea.NewProgram(m).Run() returns an error
ProgramError ==
  /\ pc = "loop"
  /\ pc' = "done"
  /\ ret' = "tea"
  /\ UNCHANGED <<listVars, modelVars, runCalls, histVars>>

\* run.NewRunner(tasks, dir): fails on an invalid catalog
NewRunner ==
  /\ pc = "newRunner"
  /\ \/ pc' = "run" /\ ret' = ret
     \/ pc' = "done" /\ ret' = "parse"
  /\ UNCHANGED <<listVars, modelVars, runCalls, histVars>>

\* runner.Run, mutated: a failed run is retried
RunTask_Mut ==
  /\ pc = "run"
  /\ runCalls' = Append(runCalls, choice)
  /\ \/ pc' = "sync" /\ ret' = ret
     \/ pc' = "run" /\ ret' = ret
  /\ UNCHANGED <<listVars, modelVars, histVars>>

\* runner.Run(ctx, task.Name, nil)
RunTask ==
  /\ pc = "run"
  /\ runCalls' = Append(runCalls, choice)
  /\ \/ pc' = "sync" /\ ret' = ret
     \/ pc' = "done" /\ ret' = "run"
  /\ UNCHANGED <<listVars, modelVars, histVars>>

\* "xc " + task.Name
XcCmd(name) == <<"x", "c", " ">> \o name

\* fmt %d of a non-negative int64
Digit(d) == CASE d = 0 -> "0" [] d = 1 -> "1" [] d = 2 -> "2" [] d = 3 -> "3"
                 [] d = 4 -> "4" [] d = 5 -> "5" [] d = 6 -> "6" [] d = 7 -> "7"
                 [] d = 8 -> "8" [] d = 9 -> "9"
RECURSIVE Itoa(_)
Itoa(n) == IF n < 10 THEN <<Digit(n)>> ELSE Itoa(n \div 10) \o <<Digit(n % 10)>>

\* appendToBashHistory's line, mutated: the trailing newline is lost
BashLine_Mut(command) == command

\* appendToBashHistory's line
BashLine(command) == command \o <<"\n">>

\* appendToZshHistory's line: fmt.Sprintf(": %d:0;%s\n", timestamp, command)
ZshLine(t, command) == <<":", " ">> \o Itoa(t) \o <<":", "0", ";">> \o command \o <<"\n">>

\* appendToHistoryFile, mutated: the file is truncated instead of appended to
AppendToHistoryFile_Mut(hist, data) ==
  {[res |-> "nil", hist |-> data], [res |-> "open", hist |-> hist]}
  \cup {[res |-> "write", hist |-> SubSeq(data, 1, k)] : k \in 0..(Len(data) - 1)}

\* appendToHistoryFile: open (O_APPEND|O_CREATE), one WriteString, close.
\* A failed write may have appended any proper prefix of the data.
AppendToHistoryFile(hist, data) ==
  {[res |-> "nil", hist |-> hist \o data], [res |-> "open", hist |-> hist]}
  \cup {[res |-> "write", hist |-> hist \o SubSeq(data, 1, k)] : k \in 0..(Len(data) - 1)}

\* callRefreshScript: runs cmd/xc/refresh_history.zsh; its error or nil
CallRefreshScript == {"nil", "refresh"}

\* appendToBashHistory(historyFile, command)
AppendToBashHistory(hist, command) == AppendToHistoryFile(hist, BashLine(command))

\* appendToZshHistory after the append returned o, mutated: the refresh
\* script runs even when the append failed
ZshOutcomes_Mut(t, o) ==
  {[res |-> IF o.res = "nil" THEN r ELSE o.res, hist |-> o.hist, stamp |-> t,
    refresh |-> 1] : r \in CallRefreshScript}

\* appendToZshHistory after the append returned o: on error return it,
\* else return callRefreshScript()
ZshOutcomes(t, o) ==
  IF o.res /= "nil"
  THEN {[res |-> o.res, hist |-> o.hist, stamp |-> t, refresh |-> 0]}
  ELSE {[res |-> r, hist |-> o.hist, stamp |-> t, refresh |-> 1] : r \in CallRefreshScript}

\* appendToZshHistory(historyFile, command); t = time.Now().Unix()
AppendToZshHistory(hist, command) ==
  UNION { UNION { ZshOutcomes(t, o) : o \in AppendToHistoryFile(hist, ZshLine(t, command)) }
          : t \in Times }

\* addToShellHistory(command): the user lookup may fail; SHELL is matched
\* with strings.Contains, "bash" first.  syncLog records each call with the
\* time read by the zsh branch (0 otherwise) and the returned error.
AddToShellHistory(command) ==
  \/ /\ syncLog' = Append(syncLog, [cmd |-> command, stamp |-> 0, ret |-> "user"])
     /\ UNCHANGED <<shell, bashHist, zshHist, refreshCalls>>
  \/ /\ Contains(shell, <<"b","a","s","h">>)
     /\ \E o \in AppendToBashHistory(bashHist, command) :
          /\ bashHist' = o.hist
          /\ syncLog' = Append(syncLog, [cmd |-> command, stamp |-> 0, ret |-> o.res])
     /\ UNCHANGED <<shell, zshHist, refreshCalls>>
  \/ /\ ~Contains(shell, <<"b","a","s","h">>)
     /\ Contains(shell, <<"z","s","h">>)
     /\ \E o \in AppendToZshHistory(zshHist, command) :
          /\ zshHist' = o.hist
          /\ refreshCalls' = refreshCalls + o.refresh
          /\ syncLog' = Append(syncLog, [cmd |-> command, stamp |-> o.stamp, ret |-> o.res])
     /\ UNCHANGED <<shell, bashHist>>
  \/ /\ ~Contains(shell, <<"b","a","s","h">>)
     /\ ~Contains(shell, <<"z","s","h">>)
     /\ syncLog' = Append(syncLog, [cmd |-> command, stamp |-> 0, ret |-> "nil"])
     /\ UNCHANGED <<shell, bashHist, zshHist, refreshCalls>>

\* interactivePicker: err = addToShellHistory("xc " + task.Name)
SyncHistory ==
  /\ pc = "sync"
  /\ AddToShellHistory(XcCmd(choice))
  /\ pc' = "done"
  /\ ret' = IF syncLog'[Len(syncLog')].ret = "nil" THEN "nil" ELSE "sync"
  /\ UNCHANGED <<listVars, modelVars, runCalls>>

Next ==
  \/ \E w \in Widths : Resize(w)
  \/ \E k \in CancelKeys : CancelKey(k)
  \/ Enter
  \/ \E k \in ListKeys : ListKey(k)
  \/ \E i \in 1..Len(pending) : DeliverFilterMatches(i)
  \/ Blink
  \/ ProcessQuit
  \/ ProgramError
  \/ NewRunner
  \/ RunTask
  \/ SyncHistory

Spec == Init /\ [][Next]_vars

\* ---- the controller, from a terminated picker (any outcome, any SHELL) ----
CtlInit ==
  /\ tasks = TaskList
  /\ ListIs(InitList)
  /\ width = ListItemWidth
  /\ quitting = TRUE
  /\ choice \in {NoTask} \cup Range(TaskList)
  /\ quitPending = TRUE
  /\ lastMsg = IF choice = NoTask THEN "cancel" ELSE "enter"
  /\ pc = "loop"
  /\ ret = "none"
  /\ runCalls = <<>>
  /\ shell \in Shells
  /\ bashHist = InitHist
  /\ zshHist = InitHist
  /\ refreshCalls = 0
  /\ syncLog = <<>>

CtlNext ==
  \/ ProcessQuit
  \/ NewRunner
  \/ RunTask
  \/ SyncHistory

CtlSpec == CtlInit /\ [][CtlNext]_vars

\* ---- the synchronizer alone, invoked repeatedly ----
SyncCmd == XcCmd(<<"a","b">>)

SyncInit ==
  /\ tasks = TaskList
  /\ ListIs(InitList)
  /\ width = ListItemWidth
  /\ quitting = FALSE
  /\ choice = NoTask
  /\ quitPending = FALSE
  /\ lastMsg = "none"
  /\ pc = "sync"
  /\ ret = "none"
  /\ runCalls = <<>>
  /\ shell \in Shells
  /\ bashHist = InitHist
  /\ zshHist = InitHist
  /\ refreshCalls = 0
  /\ syncLog = <<>>

SyncStep ==
  /\ Len(syncLog) < MaxSyncs
  /\ AddToShellHistory(SyncCmd)
  /\ UNCHANGED <<listVars, modelVars, ctlVars>>

SyncNext == SyncStep

SyncSpec == SyncInit /\ [][SyncNext]_vars

(***************************************************************************)
(* Properties                                                              *)
(***************************************************************************)

\* Outcome of the selection model: none, cancelled or chosen.
Outcome == IF ~quitting THEN "none" ELSE IF choice = NoTask THEN "cancelled" ELSE "chosen"

\* C1: once an outcome is set (quitting), no later event changes the outcome
\* or the chosen task.
C1_OutcomeFixed ==
  [][(Outcome /= "none") => (Outcome' = Outcome /\ choice' = choice)]_vars

\* C2: a cancel key from a non-terminated state sets quitting with no chosen
\* task; a session cancelled that way keeps no chosen task; the Runner is
\* invoked only for a chosen task.
C2_CancelNoRunner ==
  /\ [][(pc = "loop" /\ ~quitting /\ \E k \in CancelKeys : CancelKey(k))
          => (quitting' /\ choice' = NoTask)]_vars
  /\ [][(quitting /\ choice = NoTask /\ lastMsg = "cancel") => (choice' = NoTask)]_vars
  /\ [](runCalls /= <<>> => choice /= NoTask)

\* C3 (as stated): enter on an empty visible subset from a non-terminated
\* state is a no-op: the model stays non-terminated with no outcome.
C3_EnterEmptyNoop ==
  [][(pc = "loop" /\ ~quitting /\ Enter /\ VisibleItems = <<>>)
       => (~quitting' /\ choice' = NoTask)]_vars

\* C3 (amended): enter on an empty visible subset from a non-terminated state
\* terminates the selection model (quitting, Quit requested) with no chosen
\* task, the same outcome as a cancel key.
C3_EnterEmptyQuits ==
  [][(pc = "loop" /\ ~quitting /\ Enter /\ VisibleItems = <<>>)
       => (quitting' /\ quitPending' /\ choice' = NoTask)]_vars

\* C3 witness: enter was pressed on an empty visible subset of a non-empty
\* task list, and the model quit with no chosen task.
C3_Witness ==
  /\ lastMsg = "enter" /\ quitting /\ choice = NoTask
  /\ Len(tasks) > 0 /\ VisibleItems = <<>>

\* C4: enter on a non-empty visible subset terminates with the task at the
\* highlighted index, which is a member of the supplied task list.
C4_EnterChoosesHighlighted ==
  [][(pc = "loop" /\ Enter /\ VisibleItems /= <<>>)
       => /\ quitting'
          /\ Index(LS) < Len(VisibleItems)
          /\ choice' = VisibleItems[Index(LS) + 1]
          /\ choice' \in Range(tasks)]_vars

\* Items of ts whose name contains text as a contiguous substring, in order.
HasSubstring(s, sub) ==
  \E i \in 0..(Len(s) - Len(sub)) : SubSeq(s, i + 1, i + Len(sub)) = sub
SubstringSubset(ts, text) == SelectSeq(ts, LAMBDA t : HasSubstring(t, text))

\* C5: in every state of the selection loop the visible subset is the items
\* whose name contains the filter text as a substring (original order), and
\* the highlighted index lies inside a non-empty subset.
C5_VisibleIsSubstringFilter ==
  pc = "loop" =>
    /\ VisibleItems = SubstringSubset(tasks, filterText)
    /\ (VisibleItems /= <<>> => Index(LS) \in 0..(Len(VisibleItems) - 1))

\* C6: a resize (a step that changes the rendering width) leaves the outcome,
\* the highlighted index, the filter text and state and the visible subset
\* unchanged.
C6_ResizeOnlyWidth ==
  [][(width' /= width)
       => /\ quitting' = quitting /\ choice' = choice
          /\ Index(LS)' = Index(LS) /\ filterText' = filterText
          /\ filterState' = filterState /\ VisibleItems' = VisibleItems]_vars

\* C7 (as stated): after the picker returns a chosen task, Run is called
\* exactly once with its name, history sync is called once with "xc "+name
\* iff Run succeeded, and a failed Run leaves the history files untouched.
C7_RunThenSync ==
  (pc = "done" /\ choice /= NoTask /\ ret /= "tea") =>
    /\ runCalls = <<choice>>
    /\ (ret = "run") <=> (syncLog = <<>>)
    /\ (syncLog /= <<>> => Len(syncLog) = 1 /\ syncLog[1].cmd = <<"x","c"," ">> \o choice)
    /\ (ret = "run" => bashHist = InitHist /\ zshHist = InitHist)

\* C7 (amended): as C7, except that when building the Runner fails the
\* session returns the parse error without calling Run or the history sync.
C7_RunThenSyncUnlessParseError ==
  (pc = "done" /\ choice /= NoTask /\ ret /= "tea") =>
    IF ret = "parse"
    THEN runCalls = <<>> /\ syncLog = <<>>
    ELSE /\ runCalls = <<choice>>
         /\ (ret = "run") <=> (syncLog = <<>>)
         /\ (syncLog /= <<>> => Len(syncLog) = 1 /\ syncLog[1].cmd = <<"x","c"," ">> \o choice)
         /\ (ret = "run" => bashHist = InitHist /\ zshHist = InitHist)

\* C7 witness: a chosen task was run once and synced once.
C7_Witness ==
  pc = "done" /\ choice /= NoTask /\ Len(runCalls) = 1 /\ Len(syncLog) = 1

\* Expected history lines, written independently of the model's formatting.
ExpBash(cmd) == cmd \o <<"\n">>
ExpZsh(t, cmd) == <<":", " ">> \o Itoa(t) \o <<":", "0", ";">> \o cmd \o <<"\n">>
BashFamily(sh) == HasSubstring(sh, <<"b","a","s","h">>)
ZshFamily(sh) == ~BashFamily(sh) /\ HasSubstring(sh, <<"z","s","h">>)
LastSync == syncLog'[Len(syncLog')]
IsSyncStep == Len(syncLog') = Len(syncLog) + 1

\* C8 (as stated): each history sync appends exactly cmd+"\n" to the bash
\* history (no refresh) for a bash SHELL, exactly ": T:0;"+cmd+"\n" to the zsh
\* history for a zsh SHELL, and otherwise writes nothing, refreshes nothing
\* and returns no error.
C8_ShellDispatch ==
  [][IsSyncStep =>
      IF BashFamily(shell)
      THEN /\ bashHist' = bashHist \o ExpBash(LastSync.cmd)
           /\ zshHist' = zshHist /\ refreshCalls' = refreshCalls
      ELSE IF ZshFamily(shell)
      THEN /\ zshHist' = zshHist \o ExpZsh(LastSync.stamp, LastSync.cmd)
           /\ bashHist' = bashHist
      ELSE /\ bashHist' = bashHist /\ zshHist' = zshHist
           /\ refreshCalls' = refreshCalls /\ LastSync.ret = "nil"]_vars

\* C8 (amended): a failed user lookup returns its error and writes nothing;
\* otherwise bash: cmd+"\n" appended to the bash history when open and write
\* succeed (nothing on an open error, a proper prefix at most on a write
\* error), no refresh; zsh: the same with ": T:0;"+cmd+"\n" on the zsh
\* history; any other SHELL: nothing written or refreshed, no error.
IsPrefixAppend(h1, h0, line) == \E k \in 0..(Len(line) - 1) : h1 = h0 \o SubSeq(line, 1, k)
C8_ShellDispatchAmended ==
  [][IsSyncStep =>
      IF LastSync.ret = "user"
      THEN UNCHANGED <<bashHist, zshHist, refreshCalls>>
      ELSE IF BashFamily(shell)
      THEN /\ LastSync.ret = "nil" => bashHist' = bashHist \o ExpBash(LastSync.cmd)
           /\ LastSync.ret = "open" => bashHist' = bashHist
           /\ LastSync.ret = "write" => IsPrefixAppend(bashHist', bashHist, ExpBash(LastSync.cmd))
           /\ LastSync.ret \in {"nil", "open", "write"}
           /\ zshHist' = zshHist /\ refreshCalls' = refreshCalls
      ELSE IF ZshFamily(shell)
      THEN /\ LastSync.ret \in {"nil", "refresh"}
                => zshHist' = zshHist \o ExpZsh(LastSync.stamp, LastSync.cmd)
           /\ LastSync.ret = "open" => zshHist' = zshHist
           /\ LastSync.ret = "write"
                => IsPrefixAppend(zshHist', zshHist, ExpZsh(LastSync.stamp, LastSync.cmd))
           /\ bashHist' = bashHist
      ELSE /\ bashHist' = bashHist /\ zshHist' = zshHist
           /\ refreshCalls' = refreshCalls /\ LastSync.ret = "nil"]_vars

\* C8 witness: a bash sync succeeded after another sync.
C8_Witness ==
  /\ BashFamily(shell) /\ Len(syncLog) = 2
  /\ syncLog[2].ret = "nil" /\ bashHist /= InitHist

\* C9: for a zsh SHELL the refresh runs exactly once per sync and only after
\* a successful append; an append error is returned with no refresh; a
\* refresh error is returned with the line kept in the file.
C9_ZshRefresh ==
  [][(IsSyncStep /\ ZshFamily(shell)) =>
      /\ refreshCalls' - refreshCalls \in {0, 1}
      /\ (refreshCalls' = refreshCalls + 1) <=> (LastSync.ret \in {"nil", "refresh"})
      /\ LastSync.ret \in {"nil", "refresh"}
           => zshHist' = zshHist \o ExpZsh(LastSync.stamp, LastSync.cmd)
      /\ LastSync.ret \in {"open", "write"} => refreshCalls' = refreshCalls]_vars

\* C9 witness: a zsh sync whose refresh failed after the line was appended.
C9_Witness ==
  /\ ZshFamily(shell) /\ syncLog /= <<>>
  /\ syncLog[Len(syncLog)].ret = "refresh" /\ refreshCalls > 0

\* The history content N syncs without a lookup or file error produce.
ExpLine(e) == IF BashFamily(shell) THEN ExpBash(e.cmd) ELSE ExpZsh(e.stamp, e.cmd)
RECURSIVE ExpLines(_)
ExpLines(log) == IF log = <<>> THEN <<>> ELSE ExpLines(Front(log)) \o ExpLine(log[Len(log)])

\* C10: with a supported SHELL and no lookup or file error, N syncs leave the
\* history file as its previous content followed by N lines in call order.
C10_AppendsInOrder ==
  ((BashFamily(shell) \/ ZshFamily(shell))
     /\ \A i \in DOMAIN syncLog : syncLog[i].ret \in {"nil", "refresh"})
  => /\ (IF BashFamily(shell) THEN bashHist ELSE zshHist) = InitHist \o ExpLines(syncLog)
     /\ (IF BashFamily(shell) THEN zshHist ELSE bashHist) = InitHist

\* C10 witness: the same command synced twice, both appended.
C10_Witness ==
  /\ (BashFamily(shell) \/ ZshFamily(shell)) /\ Len(syncLog) = 2
  /\ syncLog[1].cmd = syncLog[2].cmd
  /\ \A i \in DOMAIN syncLog : syncLog[i].ret \in {"nil", "refresh"}

====
